---- MODULE Spec2Model ----
(***************************************************************************)
(* Model of lab-grading/grade.py: attendance rows are read from one        *)
(* spreadsheet and grades are written to the class register, another       *)
(* spreadsheet, through one batched update.                                *)
(*                                                                         *)
(* Python strings that the program slices or formats are sequences of      *)
(* one-character strings ("D12:D" is <<"D","1","2",":","D">>); a worksheet *)
(* name is one token.  Python lists are sequences, dicts are functions,    *)
(* list indices and row offsets are 0-based as in the program.             *)
(***************************************************************************)
EXTENDS Integers, Sequences, FiniteSets, TLC

\* ------------------------------------------------------------------ bounds
\* Longest attendance list fetched in a single run of main.
MaxAtt == 2
\* Longest attendance list of each of two runs of main against one register.
MaxAtt2 == 1
\* Longest id column / grade column handed to get_register_range alone.
MaxCol == 3
\* Largest row offset handed to make_value_range alone.
MaxIdx == 4

\* --------------------------------------------------- Python string helpers
Digits == <<"0", "1", "2", "3", "4", "5", "6", "7", "8", "9">>

IsDigit(c) == \E d \in 1..10 : Digits[d] = c

DigitVal(c) == (CHOOSE d \in 1..10 : Digits[d] = c) - 1

\* str.find(c): the 0-based index of the first occurrence, -1 when absent.
Find(s, c) ==
  IF \E p \in 1..Len(s) : s[p] = c
  THEN (CHOOSE p \in 1..Len(s) : s[p] = c /\ \A q \in 1..(p - 1) : s[q] # c) - 1
  ELSE -1

\* One bound of a Python slice, brought into 0..len.
SliceBound(n, len) ==
  IF n < 0 THEN (IF n + len < 0 THEN 0 ELSE n + len)
  ELSE IF n > len THEN len ELSE n

\* s[a:b]
Slice(s, a, b) ==
  LET lo == SliceBound(a, Len(s))
      hi == SliceBound(b, Len(s))
  IN  IF lo >= hi THEN <<>> ELSE SubSeq(s, lo + 1, hi)

\* s[a:]
SliceFrom(s, a) == Slice(s, a, Len(s))

\* int(s) succeeds on a non-empty run of decimal digits.
IntOk(s) == Len(s) > 0 /\ \A p \in 1..Len(s) : IsDigit(s[p])

RECURSIVE IntVal(_)
IntVal(s) ==
  IF Len(s) = 0 THEN 0
  ELSE 10 * IntVal(SubSeq(s, 1, Len(s) - 1)) + DigitVal(s[Len(s)])

\* str(n) for n >= 0, as formatted into an f-string.
RECURSIVE Str(_)
Str(n) == IF n < 10 THEN <<Digits[n + 1]>> ELSE Str(n \div 10) \o <<Digits[(n % 10) + 1]>>

\* ------------------------------------------------------- make_value_range
\* The row offset taken as a 1-based position.
make_value_range_OneBased(sheet, col, idx, value) ==
  LET pos       == Find(col, ":")
      start_txt == Slice(col, pos - 1, pos)
      col_name  == SliceFrom(col, pos + 1)
  IN  IF ~IntOk(start_txt) THEN [error |-> "ValueError"]
      ELSE [range          |-> <<sheet, "!">> \o col_name \o Str(IntVal(start_txt) + idx + 1),
            majorDimension |-> "ROWS",
            values         |-> <<<<value>>>>]

\* The first row read as every digit before the colon, not the last one only.
make_value_range_WholeRow(sheet, col, idx, value) ==
  LET pos       == Find(col, ":")
      start_txt == Slice(col, 1, pos)
      col_name  == SliceFrom(col, pos + 1)
  IN  IF ~IntOk(start_txt) THEN [error |-> "ValueError"]
      ELSE [range          |-> <<sheet, "!">> \o col_name \o Str(IntVal(start_txt) + idx),
            majorDimension |-> "ROWS",
            values         |-> <<<<value>>>>]

\* The ValueRange of one cell, or the ValueError of int() on a non-digit.
make_value_range(sheet, col, idx, value) ==
  LET pos       == Find(col, ":")
      start_txt == Slice(col, pos - 1, pos)
      col_name  == SliceFrom(col, pos + 1)
  IN  IF ~IntOk(start_txt) THEN [error |-> "ValueError"]
      ELSE [range          |-> <<sheet, "!">> \o col_name \o Str(IntVal(start_txt) + idx),
            majorDimension |-> "ROWS",
            values         |-> <<<<value>>>>]

IsError(x) == "error" \in DOMAIN x

\* ------------------------------------------- the spreadsheet service (remote)
\* A spreadsheet's content: the non-empty cells, keyed <<sheet, column, row>>.
CellAt(cells, sheet, col, row) ==
  IF <<sheet, col, row>> \in DOMAIN cells THEN cells[<<sheet, col, row>>] ELSE ""

\* The length of the longest prefix of s made of characters that are not digits.
RECURSIVE LettersLen(_)
LettersLen(s) ==
  IF Len(s) = 0 \/ IsDigit(s[1]) THEN 0 ELSE 1 + LettersLen(Tail(s))

\* A1 notation of one cell, "D12": column letters, then the whole row number.
ParseCell(s) ==
  LET n == LettersLen(s)
  IN  [col |-> SubSeq(s, 1, n), row |-> IntVal(SubSeq(s, n + 1, Len(s)))]

\* The service accepts a cell address with column letters and a row >= 1.
ValidCell(s) ==
  LET n == LettersLen(s)
  IN  n > 0 /\ IntOk(SubSeq(s, n + 1, Len(s))) /\ IntVal(SubSeq(s, n + 1, Len(s))) >= 1

\* The first cell of an open-ended column range "D12:D".
RangeStart(template) == ParseCell(Slice(template, 0, Find(template, ":")))

\* What the service returns for `sheet!template`: one row per cell from the
\* range's first row down to the last non-empty cell of the column, an empty
\* row for an empty cell, and no 'values' at all when the column is empty.
FetchColumn(cells, sheet, template) ==
  LET start == RangeStart(template)
      used  == {k[3] : k \in {c \in DOMAIN cells :
                                c[1] = sheet /\ c[2] = start.col /\ c[3] >= start.row}}
      last  == CHOOSE m \in used : \A n \in used : n <= m
      rng   == <<sheet, "!">> \o template
  IN  IF used = {} THEN [range |-> rng]
      ELSE [range  |-> rng,
            values |-> [i \in 1..(last - start.row + 1) |->
                          IF CellAt(cells, sheet, start.col, start.row + i - 1) = ""
                          THEN <<>>
                          ELSE <<CellAt(cells, sheet, start.col, start.row + i - 1)>>]]

\* spreadsheets().values().batchGet of the id column and the lab's grade column.
BatchGet(cells, register, sheet, lab_no) ==
  [valueRanges |-> <<FetchColumn(cells, sheet, register.moodle_ids),
                     FetchColumn(cells, sheet, register.lab_cols[lab_no])>>]

\* The cell a ValueRange's range names, as the service resolves it.
Target(vr) ==
  LET c == ParseCell(SliceFrom(vr.range, 2))
  IN  <<vr.range[1], c.col, c.row>>

\* The register after the service applied the writes of `data`, in order.
RECURSIVE ApplyWrites(_, _)
ApplyWrites(cells, data) ==
  IF Len(data) = 0 THEN cells
  ELSE LET t == Target(data[1])
           v == data[1].values[1][1]
       IN  ApplyWrites([k \in DOMAIN cells \cup {t} |-> IF k = t THEN v ELSE cells[k]],
                       Tail(data))

\* ---------------------------------------------------------- get_attendees
\* The placeholder rows are kept.
get_attendees_NoFilter(resp) ==
  IF "values" \notin DOMAIN resp THEN [error |-> "KeyError"]
  ELSE IF \E j \in 1..Len(resp.values) : Len(resp.values[j]) = 0
       THEN [error |-> "IndexError"]
  ELSE [students_lab |-> resp.values]

\* students_lab of a values().get response; KeyError without 'values',
\* IndexError on a row without cells.
get_attendees(resp) ==
  IF "values" \notin DOMAIN resp THEN [error |-> "KeyError"]
  ELSE IF \E j \in 1..Len(resp.values) : Len(resp.values[j]) = 0
       THEN [error |-> "IndexError"]
  ELSE [students_lab |-> SelectSeq(resp.values, LAMBDA s : s[1] # "#N/A")]

\* ------------------------------------------------------ _get_register_range
DictPut(d, k, v) == [x \in DOMAIN d \cup {k} |-> IF x = k THEN v ELSE d[x]]

\* The grade column is paired as fetched.
Pad_None(stud_grades, n) == stud_grades

\* stud_grades += [[]] * n  (nothing is added when n <= 0)
Pad(stud_grades, n) == stud_grades \o [i \in 1..n |-> <<>>]

\* zip(a, b) stops at the shorter list.
Zip(a, b) ==
  [i \in 1..(IF Len(a) < Len(b) THEN Len(a) ELSE Len(b)) |-> <<a[i], b[i]>>]

\* { k[0]: (v, i) for i, (k, v) in enumerate(both) }, over the first n pairs:
\* a later pair overwrites an earlier one of the same key.
RECURSIVE DictOf(_, _)
DictOf(both, n) ==
  IF n = 0 THEN <<>>
  ELSE DictPut(DictOf(both, n - 1), both[n][1][1], <<both[n][2], n - 1>>)

\* The mapping built from a batchGet response: id -> <<grade row, row offset>>.
reconcile(grades) ==
  LET vr == grades.valueRanges
  IN  IF "values" \notin DOMAIN vr[1] THEN [error |-> "KeyError"]
      ELSE LET stud_names  == vr[1].values
               fetched     == IF "values" \in DOMAIN vr[2] THEN vr[2].values ELSE <<>>
               stud_grades == Pad(fetched, Len(stud_names) - Len(fetched))
               both        == Zip(stud_names, stud_grades)
           IN  IF \E i \in 1..Len(both) : Len(both[i][1]) = 0
               THEN [error |-> "IndexError"]
               ELSE [reg_range |-> DictOf(both, Len(both))]

get_register_range(cells, register, sheet, lab_no) ==
  reconcile(BatchGet(cells, register, sheet, lab_no))

\* ----------------------------------------------------------------- inputs
None == "None"

T_A2  == <<"A", "2", ":", "A">>
T_C2  == <<"C", "2", ":", "C">>
T_D2  == <<"D", "2", ":", "D">>
T_A10 == <<"A", "1", "0", ":", "A">>
T_D10 == <<"D", "1", "0", ":", "D">>
T_A12 == <<"A", "1", "2", ":", "A">>
T_C12 == <<"C", "1", "2", ":", "C">>
T_D12 == <<"D", "1", "2", ":", "D">>

LabNos == {3}
Sheets == <<"G1", "G2">>

\* Register descriptors course_registers.json may hold for the course: the
\* students' rows start at row 2, 10 or 12 (every column of a descriptor
\* starts at the same row), without or with a TA column.
Descriptor(ids, lab) ==
  [ID |-> "REG", sheets |-> Sheets, moodle_ids |-> ids, lab_cols |-> [l \in LabNos |-> lab]]

WithTa(d, t) ==
  [ID |-> d.ID, sheets |-> d.sheets, moodle_ids |-> d.moodle_ids,
   lab_cols |-> d.lab_cols, ta_col |-> t]

Registers ==
  { Descriptor(T_A2, T_D2), Descriptor(T_A10, T_D10), Descriptor(T_A12, T_D12),
    WithTa(Descriptor(T_A2, T_D2), T_C2), WithTa(Descriptor(T_A12, T_D12), T_C12) }

\* Who is listed in which worksheet of the register, top to bottom.
Enrolled(sheet) == IF sheet = "G1" THEN <<"S1", "S2">> ELSE <<"S2">>

SheetSet == {Sheets[i] : i \in 1..Len(Sheets)}

\* The id column of every worksheet, written from the descriptor's first row.
IdCells(d) ==
  LET start == RangeStart(d.moodle_ids)
      keys  == UNION {{<<sh, start.col, start.row + i - 1>> : i \in 1..Len(Enrolled(sh))}
                      : sh \in SheetSet}
  IN  [k \in keys |-> Enrolled(k[1])[k[3] - start.row + 1]]

\* The grade cells of the enrolled students for the lab.
GradeKeys(d, lab_no) ==
  LET start == RangeStart(d.lab_cols[lab_no])
  IN  UNION {{<<sh, start.col, start.row + i - 1>> : i \in 1..Len(Enrolled(sh))}
             : sh \in SheetSet}

\* Registers in which the students of `graded` already have the grade "7".
InitialCells(d, lab_no) ==
  { [k \in DOMAIN IdCells(d) \cup graded |->
       IF k \in graded THEN "7" ELSE IdCells(d)[k]] : graded \in SUBSET GradeKeys(d, lab_no) }

\* Rows an attendance sheet can return: an id with a grade, or an id alone
\* (the service drops the trailing empty cell of a row).
AttRows == {<<"#N/A">>, <<"#N/A", "9">>, <<"S2">>, <<"S1", "9">>, <<"S2", "10">>}

SeqsUpTo(S, n) == UNION {[1..m -> S] : m \in 0..n}

Acronyms == {None, "TD"}

Runs == {1, 2}

\* ------------------------------------------------------------------ state
VARIABLES
  cells,         \* the register spreadsheet (shared by every run)
  register,      \* the descriptor course_registers.json holds for the course
  args,          \* per run: attendance (the attendance sheet's rows), lab_no, ta
  pc,            \* per run: how far main has got
  students_lab,  \* per run
  body,          \* per run: the request body under construction
  sheet_i,       \* per run: worksheets of register['sheets'] already planned
  out,           \* per run: lines printed
  response,      \* per run: the batchUpdate response
  hist,          \* per run, history only: remote calls issued, the mapping seen
                 \* per worksheet, and which attendance row caused each
                 \* CellWrite and each diagnostic
  clock,         \* history only: number of batched writes applied so far
  arg, ret       \* a function applied on its own: its arguments and result

vars == <<cells, register, args, pc, students_lab, body, sheet_i, out, response,
          hist, clock, arg, ret>>

runVars == <<cells, register, args, pc, students_lab, body, sheet_i, out, response,
             hist, clock>>

\* ------------------------------------------------------------------- main
\* Python truth value of the --ta argument.
Truthy(ta) == ta # None /\ ta # ""

\* The grade row is not looked at.
ShouldGrade_IgnoresGrade(reg_range, stud) == stud \in DOMAIN reg_range

\* The emptiness test is inverted.
ShouldGrade_Inverted(reg_range, stud) ==
  stud \in DOMAIN reg_range /\ Len(reg_range[stud][1]) # 0

\* Line 145: the student is listed in the worksheet and the grade row is empty.
ShouldGrade(reg_range, stud) ==
  stud \in DOMAIN reg_range /\ Len(reg_range[stud][1]) = 0

\* The membership test is negated.
AlreadyGraded_Negated(reg_range, stud) == stud \notin DOMAIN reg_range

\* Line 151: otherwise, the student is listed in the worksheet.
AlreadyGraded(reg_range, stud) == stud \in DOMAIN reg_range

AlreadyGradedLine(stud, lab_no) ==
  [line |-> "Error: student has already been graded for lab", stud |-> stud, lab |-> lab_no]

Failed(acc, e) == [acc EXCEPT !.error = e]

\* One iteration of `for stud, grade in students_lab` (lines 144-152) on
\* attendance row j.  acc: data appended so far, lines printed, which row
\* caused each of them, and the exception raised, if any.
PlanRow(acc, sheet, reg_range, row, j, reg, lab_no, ta) ==
  IF acc.error # None THEN acc
  ELSE IF Len(row) # 2 THEN Failed(acc, "ValueError")
  ELSE
    LET stud  == row[1]
        grade == row[2]
    IN  IF ShouldGrade(reg_range, stud)
        THEN LET g    == make_value_range(sheet, reg.lab_cols[lab_no],
                                          reg_range[stud][2], grade)
                 acc1 == [acc EXCEPT
                            !.data   = Append(@, g),
                            !.origin = Append(@, [sheet |-> sheet, att |-> j,
                                                  stud |-> stud, col |-> "grade"])]
             IN  IF IsError(g) THEN Failed(acc, g.error)
                 ELSE IF ~Truthy(ta) THEN acc1
                 ELSE IF "ta_col" \notin DOMAIN reg THEN Failed(acc1, "KeyError")
                 ELSE LET t == make_value_range(sheet, reg.ta_col, reg_range[stud][2], ta)
                      IN  IF IsError(t) THEN Failed(acc1, t.error)
                          ELSE [acc1 EXCEPT
                                  !.data   = Append(@, t),
                                  !.origin = Append(@, [sheet |-> sheet, att |-> j,
                                                        stud |-> stud, col |-> "ta"])]
        ELSE IF AlreadyGraded(reg_range, stud)
        THEN [acc EXCEPT
                !.out  = Append(@, AlreadyGradedLine(stud, lab_no)),
                !.diag = Append(@, [sheet |-> sheet, att |-> j, stud |-> stud])]
        ELSE acc

\* The inner loop over the first n rows of students_lab.
RECURSIVE PlanSheet(_, _, _, _, _, _, _, _)
PlanSheet(acc, sheet, reg_range, students, n, reg, lab_no, ta) ==
  IF n = 0 THEN acc
  ELSE PlanRow(PlanSheet(acc, sheet, reg_range, students, n - 1, reg, lab_no, ta),
               sheet, reg_range, students[n], n, reg, lab_no, ta)

Call(r, op, what) == [hist EXCEPT ![r].calls = Append(@, [op |-> op, arg |-> what])]

Abort(h, r, step) == [h EXCEPT ![r].failed = step]

\* Line 127: service = _login()
Login(r) ==
  /\ pc[r] = "start"
  /\ pc' = [pc EXCEPT ![r] = "logged_in"]
  /\ hist' = Call(r, "login", None)
  /\ UNCHANGED <<cells, register, args, students_lab, body, sheet_i, out, response,
                 clock, arg, ret>>

\* _login raises: no valid or refreshable credential.
LoginFails(r) ==
  /\ pc[r] = "start"
  /\ pc' = [pc EXCEPT ![r] = "aborted"]
  /\ hist' = Abort(Call(r, "login", None), r, "login")
  /\ UNCHANGED <<cells, register, args, students_lab, body, sheet_i, out, response,
                 clock, arg, ret>>

\* Line 128: register = load(open('course_registers.json'))[course]
LoadRegister(r) ==
  /\ pc[r] = "logged_in"
  /\ pc' = [pc EXCEPT ![r] = "configured"]
  /\ hist' = Call(r, "load", None)
  /\ UNCHANGED <<cells, register, args, students_lab, body, sheet_i, out, response,
                 clock, arg, ret>>

\* No such file, or no such course in it.
LoadFails(r) ==
  /\ pc[r] = "logged_in"
  /\ pc' = [pc EXCEPT ![r] = "aborted"]
  /\ hist' = Abort(Call(r, "load", None), r, "load")
  /\ UNCHANGED <<cells, register, args, students_lab, body, sheet_i, out, response,
                 clock, arg, ret>>

\* What values().get returns for the attendance range.
AttendanceResponse(rows) ==
  IF Len(rows) = 0 THEN [range |-> "Prezenta lab"]
  ELSE [range |-> "Prezenta lab", values |-> rows]

\* Lines 131-138: students_lab = _get_attendees(...), then the empty body.
GetAttendees(r) ==
  /\ pc[r] = "configured"
  /\ LET got == get_attendees(AttendanceResponse(args[r].attendance))
     IN  IF IsError(got)
         THEN /\ pc' = [pc EXCEPT ![r] = "aborted"]
              /\ hist' = Abort(Call(r, "get", None), r, "get")
              /\ UNCHANGED <<students_lab, body>>
         ELSE /\ pc' = [pc EXCEPT ![r] = "planning"]
              /\ hist' = Call(r, "get", None)
              /\ students_lab' = [students_lab EXCEPT ![r] = got.students_lab]
              /\ body' = [body EXCEPT ![r] =
                            [valueInputOption |-> "USER_ENTERED", data |-> <<>>,
                             includeValuesInResponse |-> FALSE]]
  /\ UNCHANGED <<cells, register, args, sheet_i, out, response, clock, arg, ret>>

\* The attendance fetch raises (malformed range, revoked permission, network).
GetAttendeesFails(r) ==
  /\ pc[r] = "configured"
  /\ pc' = [pc EXCEPT ![r] = "aborted"]
  /\ hist' = Abort(Call(r, "get", None), r, "get")
  /\ UNCHANGED <<cells, register, args, students_lab, body, sheet_i, out, response,
                 clock, arg, ret>>

\* Lines 141-152, one worksheet: the reconciliation fetch and the inner loop.
PlanWorksheet(r) ==
  /\ pc[r] = "planning"
  /\ sheet_i[r] < Len(register.sheets)
  /\ LET sheet == register.sheets[sheet_i[r] + 1]
         got   == get_register_range(cells, register, sheet, args[r].lab_no)
         h     == Call(r, "batchGet", sheet)
     IN  IF IsError(got)
         THEN /\ pc' = [pc EXCEPT ![r] = "aborted"]
              /\ hist' = Abort(h, r, "batchGet")
              /\ UNCHANGED <<body, out, sheet_i>>
         ELSE LET acc == PlanSheet([data |-> body[r].data, out |-> out[r],
                                    origin |-> hist[r].origin, diag |-> hist[r].diag,
                                    error |-> None],
                                   sheet, got.reg_range, students_lab[r],
                                   Len(students_lab[r]), register,
                                   args[r].lab_no, args[r].ta)
                  h1  == [h EXCEPT ![r].origin = acc.origin,
                                   ![r].diag   = acc.diag,
                                   ![r].seen   = Append(@, [reg_range |-> got.reg_range,
                                                            clock |-> clock])]
              IN  /\ body' = [body EXCEPT ![r].data = acc.data]
                  /\ out' = [out EXCEPT ![r] = acc.out]
                  /\ sheet_i' = [sheet_i EXCEPT ![r] = @ + 1]
                  /\ IF acc.error # None
                     THEN /\ pc' = [pc EXCEPT ![r] = "aborted"]
                          /\ hist' = Abort(h1, r, "plan")
                     ELSE /\ pc' = pc
                          /\ hist' = h1
  /\ UNCHANGED <<cells, register, args, students_lab, response, clock, arg, ret>>

\* The reconciliation fetch raises.
PlanWorksheetFails(r) ==
  /\ pc[r] = "planning"
  /\ sheet_i[r] < Len(register.sheets)
  /\ pc' = [pc EXCEPT ![r] = "aborted"]
  /\ hist' = Abort(Call(r, "batchGet", register.sheets[sheet_i[r] + 1]), r, "batchGet")
  /\ UNCHANGED <<cells, register, args, students_lab, body, sheet_i, out, response,
                 clock, arg, ret>>

\* What batchUpdate answers when it accepts the request: one response per
\* ValueRange; the total counts the writes, or the cells written when two
\* writes name the same cell; no total when nothing was written.
UpdateResponses(id, data) ==
  LET targets == {Target(data[i]) : i \in 1..Len(data)}
  IN  IF Len(data) = 0 THEN {[spreadsheetId |-> id]}
      ELSE {[spreadsheetId     |-> id,
             totalUpdatedCells |-> u,
             responses         |-> [i \in 1..Len(data) |-> [updatedRange |-> data[i].range]]]
            : u \in {Len(data), Cardinality(targets)}}

\* response.get('totalUpdatedCells', 0)
UpdatedCells(resp) ==
  IF "totalUpdatedCells" \in DOMAIN resp THEN resp.totalUpdatedCells ELSE 0

\* Lines 163-171: which of the three messages is printed.
Outcome(updated_cells, n_students, ta) ==
  IF \/ (~Truthy(ta) /\ updated_cells = n_students)
     \/ (Truthy(ta) /\ updated_cells = 2 * n_students)
  THEN "All students are graded!"
  ELSE IF updated_cells # 0 THEN "Modified cells:"
  ELSE "Fucked up completely: cells modified!"

\* Lines 159-171: the lines printed after the write.
Report(id, resp, students, ta) ==
  LET u    == UpdatedCells(resp)
      what == Outcome(u, Len(students), ta)
  IN  <<[line |-> "Class register:", id |-> id]>>
      \o (IF what = "Modified cells:"
          THEN <<[line |-> what, n |-> u]>>
               \o [i \in 1..Len(resp.responses) |->
                     [line |-> "range", range |-> resp.responses[i].updatedRange]]
          ELSE <<[line |-> what]>>)

\* Lines 155-171: the batched write, accepted by the service, and the report.
SubmitWhen(r, ready) ==
  /\ pc[r] = "planning"
  /\ ready
  /\ \A i \in 1..Len(body[r].data) : ValidCell(SliceFrom(body[r].data[i].range, 2))
  /\ \E resp \in UpdateResponses(register.ID, body[r].data) :
       /\ response' = [response EXCEPT ![r] = resp]
       /\ out' = [out EXCEPT ![r] = @ \o Report(register.ID, resp, students_lab[r],
                                                 args[r].ta)]
  /\ cells' = ApplyWrites(cells, body[r].data)
  /\ clock' = clock + 1
  /\ hist' = [Call(r, "batchUpdate", body[r]) EXCEPT ![r].wrote = clock + 1]
  /\ pc' = [pc EXCEPT ![r] = "done"]
  /\ UNCHANGED <<register, args, students_lab, body, sheet_i, arg, ret>>

\* The write is issued as soon as some worksheet has been planned.
Submit_PerWorksheet(r) == SubmitWhen(r, sheet_i[r] >= 1)

\* The write follows the loop over register['sheets'].
Submit(r) == SubmitWhen(r, sheet_i[r] = Len(register.sheets))

\* The batched write raises: the service applied nothing.
SubmitFails(r) ==
  /\ pc[r] = "planning"
  /\ sheet_i[r] = Len(register.sheets)
  /\ pc' = [pc EXCEPT ![r] = "aborted"]
  /\ hist' = Abort(Call(r, "batchUpdate", body[r]), r, "batchUpdate")
  /\ UNCHANGED <<cells, register, args, students_lab, body, sheet_i, out, response,
                 clock, arg, ret>>

\* ---------------------------------------------------------- specifications
NoHist == [calls |-> <<>>, seen |-> <<>>, origin |-> <<>>, diag |-> <<>>,
           failed |-> None, wrote |-> 0]

Fresh ==
  /\ students_lab = [r \in Runs |-> <<>>]
  /\ body = [r \in Runs |-> [pending |-> TRUE]]
  /\ sheet_i = [r \in Runs |-> 0]
  /\ out = [r \in Runs |-> <<>>]
  /\ response = [r \in Runs |-> [pending |-> TRUE]]
  /\ hist = [r \in Runs |-> NoHist]
  /\ clock = 0

NoCall == /\ arg = [none |-> TRUE]
          /\ ret = [called |-> FALSE]

\* One run of main, on any attendance list, descriptor and register content.
Init ==
  /\ register \in Registers
  /\ \E a \in [attendance : SeqsUpTo(AttRows, MaxAtt), lab_no : LabNos, ta : Acronyms] :
       args = [r \in Runs |-> a]
  /\ cells \in InitialCells(register, args[1].lab_no)
  /\ pc = [r \in Runs |-> IF r = 1 THEN "start" ELSE "off"]
  /\ Fresh
  /\ NoCall

Next ==
  \E r \in Runs :
    \/ Login(r) \/ LoginFails(r)
    \/ LoadRegister(r) \/ LoadFails(r)
    \/ GetAttendees(r) \/ GetAttendeesFails(r)
    \/ PlanWorksheet(r) \/ PlanWorksheetFails(r)
    \/ Submit(r) \/ SubmitFails(r)

Spec == Init /\ [][Next]_vars

\* Two runs of main against the same register, in any interleaving of their
\* remote calls; every call succeeds.
AttRows2 == {<<"S1", "9">>, <<"S2", "9">>, <<"S2", "10">>}

InitTwo ==
  /\ register \in {Descriptor(T_A2, T_D2), Descriptor(T_A12, T_D12)}
  /\ args \in [Runs -> [attendance : SeqsUpTo(AttRows2, MaxAtt2), lab_no : LabNos,
                        ta : {None}]]
  /\ cells \in InitialCells(register, args[1].lab_no)
  /\ pc = [r \in Runs |-> "start"]
  /\ Fresh
  /\ NoCall

NextTwo ==
  \E r \in Runs :
    \/ Login(r) \/ LoadRegister(r) \/ GetAttendees(r) \/ PlanWorksheet(r) \/ Submit(r)

SpecTwo == InitTwo /\ [][NextTwo]_vars

\* _get_register_range's pairing on its own, on any two fetched columns.
IdRows == {<<"S1">>, <<"S2">>}
GradeRows == {<<>>, <<"7">>}

ColumnOf(rows) == IF Len(rows) = 0 THEN [range |-> "r"] ELSE [range |-> "r", values |-> rows]

Idle ==
  /\ register = Descriptor(T_A2, T_D2)
  /\ args = [r \in Runs |-> [attendance |-> <<>>, lab_no |-> 3, ta |-> None]]
  /\ cells = <<>>
  /\ pc = [r \in Runs |-> "off"]
  /\ Fresh

InitReg ==
  /\ Idle
  /\ \E ids \in SeqsUpTo(IdRows, MaxCol) \ {<<>>}, gs \in SeqsUpTo(GradeRows, MaxCol) :
       arg = [ids |-> ids, grades |-> gs]
  /\ ret = [called |-> FALSE]

Reconcile ==
  /\ ~ret.called
  /\ ret' = [called |-> TRUE,
             val |-> reconcile([valueRanges |-> <<ColumnOf(arg.ids), ColumnOf(arg.grades)>>])]
  /\ UNCHANGED <<runVars, arg>>

SpecReg == InitReg /\ [][Reconcile]_vars

\* _make_value_range on its own, on any template '<letter><row>:<letter>'.
StartRows == {1, 2, 5, 9, 10, 12, 25, 30}

Template(letter, row) == <<letter>> \o Str(row) \o <<":", letter>>

InitAddr ==
  /\ Idle
  /\ arg \in [sheet : SheetSet, col : {Template(l, n) : l \in {"C", "D"}, n \in StartRows},
              idx : 0..MaxIdx, value : {"9", "TD"}]
  /\ ret = [called |-> FALSE]

MakeValueRange ==
  /\ ~ret.called
  /\ ret' = [called |-> TRUE,
             val |-> make_value_range(arg.sheet, arg.col, arg.idx, arg.value)]
  /\ UNCHANGED <<runVars, arg>>

SpecAddr == InitAddr /\ [][MakeValueRange]_vars

\* ----------------------------------------------------------------- claims
SheetIdx(sh) == CHOOSE k \in 1..Len(Sheets) : Sheets[k] = sh

\* The mapping run r built for its k-th worksheet.
Seen(r, k) == hist[r].seen[k].reg_range

\* Run r's inner loop over its k-th worksheet ran to its end.
LoopDone(r, k) ==
  /\ k \in 1..Len(hist[r].seen)
  /\ ~(hist[r].failed = "plan" /\ k = Len(hist[r].seen))

\* The CellWrites of run r (indices into body[r].data) that attendance row j
\* caused in worksheet sh for column col ("grade" or "ta").
WritesFor(r, sh, j, col) ==
  {i \in 1..Len(hist[r].origin) :
     /\ hist[r].origin[i].sheet = sh
     /\ hist[r].origin[i].att = j
     /\ hist[r].origin[i].col = col}

\* The diagnostics attendance row j caused in worksheet sh.
DiagsFor(r, sh, j) ==
  {i \in 1..Len(hist[r].diag) : hist[r].diag[i].sheet = sh /\ hist[r].diag[i].att = j}

\* The already-graded lines run r printed, in order.
DiagLines(r) ==
  SelectSeq(out[r], LAMBDA l : l.line = "Error: student has already been graded for lab")

\* Attendance row j of run r names a student listed in worksheet k with a
\* non-empty grade row / with an empty grade row.
SawGraded(r, k, j) ==
  LET stud == students_lab[r][j][1]
  IN  stud \in DOMAIN Seen(r, k) /\ Len(Seen(r, k)[stud][1]) > 0

SawEmpty(r, k, j) ==
  LET stud == students_lab[r][j][1]
  IN  stud \in DOMAIN Seen(r, k) /\ Len(Seen(r, k)[stud][1]) = 0

\* C1: for every worksheet whose loop completed and every attendance row whose
\* id is listed there with a non-empty grade cell, the batch holds no CellWrite
\* (grade or TA) for that student in that worksheet, and the row caused exactly
\* one printed line 'Error: student "<id>" has already been graded for lab <n>.'
C1_AlreadyGradedSkipped ==
  \A r \in Runs :
    /\ DiagLines(r) = [i \in 1..Len(hist[r].diag) |->
                         AlreadyGradedLine(hist[r].diag[i].stud, args[r].lab_no)]
    /\ \A k \in 1..Len(Sheets) : LoopDone(r, k) =>
         \A j \in 1..Len(students_lab[r]) : SawGraded(r, k, j) =>
           /\ \A i \in 1..Len(hist[r].origin) :
                ~(/\ hist[r].origin[i].sheet = Sheets[k]
                  /\ hist[r].origin[i].stud = students_lab[r][j][1])
           /\ Cardinality(DiagsFor(r, Sheets[k], j)) = 1
           /\ \A i \in DiagsFor(r, Sheets[k], j) :
                hist[r].diag[i].stud = students_lab[r][j][1]

C1_Witness ==
  \E r \in Runs, k \in 1..Len(Sheets) :
    /\ pc[r] = "done"
    /\ LoopDone(r, k)
    /\ \E j \in 1..Len(students_lab[r]) :
         SawGraded(r, k, j) /\ Cardinality(DiagsFor(r, Sheets[k], j)) = 1

GradeWritesOf(r, stud) ==
  {i \in 1..Len(hist[r].origin) :
     hist[r].origin[i].col = "grade" /\ hist[r].origin[i].stud = stud}

\* C2, as claimed: the submitted batch holds at most one grade CellWrite per
\* student id, and only for a student whose grade cell was observed empty.
C2_AtMostOncePerStudent ==
  \A r \in Runs : pc[r] = "done" =>
    \A stud \in {"S1", "S2"} :
      /\ Cardinality(GradeWritesOf(r, stud)) <= 1
      /\ \A i \in GradeWritesOf(r, stud) :
           Len(Seen(r, SheetIdx(hist[r].origin[i].sheet))[stud][1]) = 0

\* C2, amended: the batch holds at most one grade CellWrite per worksheet and
\* attendance row, and only for a student whose grade cell in that worksheet
\* was observed empty; a student listed in several attendance rows or in
\* several worksheets gets one grade CellWrite for each.
C2_AtMostOncePerRowAndSheet ==
  \A r \in Runs :
    /\ body[r] # [pending |-> TRUE] => Len(body[r].data) = Len(hist[r].origin)
    /\ \A k \in 1..Len(Sheets), j \in 1..Len(students_lab[r]) :
         Cardinality(WritesFor(r, Sheets[k], j, "grade")) <= 1
    /\ \A i \in 1..Len(hist[r].origin) :
         LET o == hist[r].origin[i]
         IN  /\ o.stud = students_lab[r][o.att][1]
             /\ o.stud \in DOMAIN Seen(r, SheetIdx(o.sheet))
             /\ Len(Seen(r, SheetIdx(o.sheet))[o.stud][1]) = 0

C2_Witness ==
  \E r \in Runs, stud \in {"S1", "S2"} :
    /\ pc[r] = "done"
    /\ \E i1, i2 \in GradeWritesOf(r, stud) :
         /\ i1 # i2
         /\ hist[r].origin[i1].sheet = hist[r].origin[i2].sheet
    /\ \E i1, i2 \in GradeWritesOf(r, stud) :
         hist[r].origin[i1].sheet # hist[r].origin[i2].sheet

\* The data row a template names as the service reads it, and its column.
StartRow(template) == RangeStart(template).row
ColumnName(template) == RangeStart(template).col

\* C3: for every worksheet whose loop completed and every attendance row whose
\* id is listed there with an empty grade cell, the row caused exactly one
\* CellWrite of its grade into the lab's grade column; with a TA acronym and a
\* configured TA column it caused exactly one more CellWrite, of the acronym
\* into the TA column at the same row; without a TA acronym it caused no TA
\* CellWrite.
C3_UngradedWritten ==
  \A r \in Runs : \A k \in 1..Len(Sheets) : LoopDone(r, k) =>
    \A j \in 1..Len(students_lab[r]) : SawEmpty(r, k, j) =>
      LET gs  == WritesFor(r, Sheets[k], j, "grade")
          ts  == WritesFor(r, Sheets[k], j, "ta")
          lab == register.lab_cols[args[r].lab_no]
      IN  /\ Cardinality(gs) = 1
          /\ \A g \in gs :
               /\ body[r].data[g].values = <<<<students_lab[r][j][2]>>>>
               /\ body[r].data[g].majorDimension = "ROWS"
               /\ Target(body[r].data[g])[1] = Sheets[k]
               /\ Target(body[r].data[g])[2] = ColumnName(lab)
          /\ ~Truthy(args[r].ta) => ts = {}
          /\ (Truthy(args[r].ta) /\ "ta_col" \in DOMAIN register) =>
               /\ Cardinality(ts) = 1
               /\ \A g \in gs, t \in ts :
                    /\ body[r].data[t].values = <<<<args[r].ta>>>>
                    /\ Target(body[r].data[t])[1] = Sheets[k]
                    /\ Target(body[r].data[t])[2] = ColumnName(register.ta_col)
                    /\ Target(body[r].data[t])[3] = Target(body[r].data[g])[3]

C3_Witness ==
  \E r \in Runs, k \in 1..Len(Sheets) :
    /\ pc[r] = "done"
    /\ Truthy(args[r].ta)
    /\ "ta_col" \in DOMAIN register
    /\ \E j \in 1..Len(students_lab[r]) :
         /\ SawEmpty(r, k, j)
         /\ Seen(r, k)[students_lab[r][j][1]][2] > 0
         /\ Cardinality(WritesFor(r, Sheets[k], j, "ta")) = 1

\* The expected count: attendance rows whose id is not '#N/A', doubled when a
\* TA acronym is supplied.
Expected(r) ==
  Cardinality({j \in 1..Len(args[r].attendance) : args[r].attendance[j][1] # "#N/A"})
  * (IF args[r].ta # None THEN 2 ELSE 1)

OutcomeMessages ==
  {"All students are graded!", "Modified cells:", "Fucked up completely: cells modified!"}

OutcomeLines(r) == SelectSeq(out[r], LAMBDA l : l.line \in OutcomeMessages)

RangeLines(r) == SelectSeq(out[r], LAMBDA l : l.line = "range")

\* C5, as claimed: after the write returned u, exactly one outcome is
\* reported: full success when u = e, total failure whenever u = 0, partial
\* success with the updated ranges for any other u.
C5_Report ==
  \A r \in Runs : pc[r] = "done" =>
    LET u == UpdatedCells(response[r])
        e == Expected(r)
    IN  /\ Len(OutcomeLines(r)) = 1
        /\ u = e => OutcomeLines(r)[1].line = "All students are graded!"
        /\ u = 0 => OutcomeLines(r)[1].line = "Fucked up completely: cells modified!"
        /\ (u # e /\ u # 0) =>
             /\ OutcomeLines(r)[1] = [line |-> "Modified cells:", n |-> u]
             /\ RangeLines(r) = [i \in 1..Len(response[r].responses) |->
                   [line |-> "range", range |-> response[r].responses[i].updatedRange]]

\* C5, amended: full success when u = e (also when both are 0); total failure
\* when u = 0 and e # 0; partial success with the updated ranges otherwise.
C5_ReportAmended ==
  \A r \in Runs : pc[r] = "done" =>
    LET u == UpdatedCells(response[r])
        e == Expected(r)
    IN  /\ Len(OutcomeLines(r)) = 1
        /\ u = e => /\ OutcomeLines(r)[1].line = "All students are graded!"
                    /\ RangeLines(r) = <<>>
        /\ (u = 0 /\ e # 0) =>
             /\ OutcomeLines(r)[1].line = "Fucked up completely: cells modified!"
             /\ RangeLines(r) = <<>>
        /\ (u # e /\ u # 0) =>
             /\ OutcomeLines(r)[1] = [line |-> "Modified cells:", n |-> u]
             /\ RangeLines(r) = [i \in 1..Len(response[r].responses) |->
                   [line |-> "range", range |-> response[r].responses[i].updatedRange]]

C5_Witness ==
  \E r \in Runs :
    /\ pc[r] = "done"
    /\ \E j \in 1..Len(args[r].attendance) : args[r].attendance[j][1] = "#N/A"
    /\ UpdatedCells(response[r]) = Expected(r)
    /\ Expected(r) > 0

WriteCalls(r) == {i \in 1..Len(hist[r].calls) : hist[r].calls[i].op = "batchUpdate"}

\* C6: a run issues at most one batched update, and exactly one when it runs
\* to its end; the request carries every CellWrite collected over all
\* worksheets with valueInputOption USER_ENTERED; it is issued after the login,
\* the descriptor lookup, the attendance fetch and the reconciliation fetch of
\* every worksheet in order; a run aborted by any of those steps has issued no
\* batched update, and the register is as it was.
C6_SingleWriteAfterAllReads ==
  /\ \A r \in Runs :
       /\ Cardinality(WriteCalls(r)) <= 1
       /\ pc[r] = "done" => Cardinality(WriteCalls(r)) = 1
       /\ \A i \in WriteCalls(r) :
            /\ i = Len(Sheets) + 4
            /\ hist[r].calls[1].op = "login"
            /\ hist[r].calls[2].op = "load"
            /\ hist[r].calls[3].op = "get"
            /\ \A k \in 1..Len(Sheets) :
                 /\ hist[r].calls[3 + k].op = "batchGet"
                 /\ hist[r].calls[3 + k].arg = Sheets[k]
                 /\ LoopDone(r, k)
            /\ hist[r].calls[i].arg.valueInputOption = "USER_ENTERED"
            /\ hist[r].calls[i].arg.data = body[r].data
            /\ Len(body[r].data) = Len(hist[r].origin)
       /\ hist[r].failed \in {"login", "load", "get", "batchGet", "plan"} =>
            /\ pc[r] = "aborted"
            /\ WriteCalls(r) = {}
            /\ hist[r].wrote = 0
  /\ (\A r \in Runs : hist[r].wrote = 0) => clock = 0 /\ cells \in InitialCells(register, args[1].lab_no)

C6_Witness ==
  \E r \in Runs :
    /\ pc[r] = "done"
    /\ \A k \in 1..Len(Sheets) :
         \E i \in 1..Len(hist[r].origin) : hist[r].origin[i].sheet = Sheets[k]
    /\ ApplyWrites(cells, body[r].data) = cells
    /\ cells \notin InitialCells(register, args[1].lab_no)

\* C10: with a grade column whose first row is 10 or more, make_value_range
\* raises nothing and addresses row (last digit of the first row + offset)
\* instead of row (first row + offset): the CellWrite planned for a student
\* whose cell was seen empty names another cell than the one seen, and the run
\* submits it.
C10_WrongRowSubmitted ==
  \A r \in Runs :
    LET lab == register.lab_cols[args[r].lab_no]
    IN  StartRow(lab) >= 10 =>
          \A k \in 1..Len(Sheets) : LoopDone(r, k) =>
            \A j \in 1..Len(students_lab[r]) : SawEmpty(r, k, j) =>
              LET offset == Seen(r, k)[students_lab[r][j][1]][2]
                  seen   == <<Sheets[k], ColumnName(lab), StartRow(lab) + offset>>
              IN  /\ WritesFor(r, Sheets[k], j, "grade") # {}
                  /\ \A g \in WritesFor(r, Sheets[k], j, "grade") :
                       /\ ~IsError(body[r].data[g])
                       /\ Target(body[r].data[g])[3] = (StartRow(lab) % 10) + offset
                       /\ Target(body[r].data[g])[3] # StartRow(lab) + offset
                       /\ Target(body[r].data[g]) # seen
                       /\ \A i \in WriteCalls(r) :
                            hist[r].calls[i].arg.data[g] = body[r].data[g]
                       /\ pc[r] = "done" =>
                            /\ WriteCalls(r) # {}
                            /\ CellAt(cells, Sheets[k], ColumnName(lab),
                                      Target(body[r].data[g])[3]) # ""

C10_Witness ==
  \E r \in Runs, k \in 1..Len(Sheets) :
    /\ pc[r] = "done"
    /\ StartRow(register.lab_cols[args[r].lab_no]) >= 10
    /\ \E j \in 1..Len(students_lab[r]) :
         /\ SawEmpty(r, k, j)
         /\ Seen(r, k)[students_lab[r][j][1]][2] > 0
         /\ WritesFor(r, Sheets[k], j, "grade") # {}
         /\ CellAt(cells, Sheets[k], <<"D">>,
                   StartRow(register.lab_cols[args[r].lab_no])
                   + Seen(r, k)[students_lab[r][j][1]][2]) = ""

\* Run b started after run a's write was applied (all of b's fetches came later).
After(a, b) ==
  /\ a # b
  /\ pc[a] = "done"
  /\ pc[b] = "done"
  /\ \A k \in 1..Len(hist[b].seen) : hist[b].seen[k].clock >= hist[a].wrote

\* C7: when a run wrote a grade for a student and the write succeeded, a
\* second run with the same attendance list, register, lab and worksheets
\* reads the student's cell as non-empty, prints the already-graded line for
\* the student and plans no CellWrite for the student in that worksheet.
C7_SecondRunSkips ==
  \A a, b \in Runs : (After(a, b) /\ args[a] = args[b]) =>
    \A i \in 1..Len(hist[a].origin) :
      LET o == hist[a].origin[i]
      IN  /\ Len(Seen(b, SheetIdx(o.sheet))[o.stud][1]) > 0
          /\ \E d \in 1..Len(hist[b].diag) :
               hist[b].diag[d].sheet = o.sheet /\ hist[b].diag[d].stud = o.stud
          /\ \A w \in 1..Len(hist[b].origin) :
               ~(hist[b].origin[w].sheet = o.sheet /\ hist[b].origin[w].stud = o.stud)

\* The last value run r's batch writes into cell t.
LastValue(r, t) ==
  LET is == {i \in 1..Len(body[r].data) : Target(body[r].data[i]) = t}
      i  == CHOOSE x \in is : \A y \in is : y <= x
  IN  body[r].data[i].values[1][1]

Targets(r) == {Target(body[r].data[i]) : i \in 1..Len(body[r].data)}

\* Both runs listed stud in attendance and saw stud's grade cell empty in
\* worksheet k.
BothSawEmpty(a, b, k, stud) ==
  \A r \in {a, b} :
    /\ k \in 1..Len(hist[r].seen)
    /\ \E j \in 1..Len(students_lab[r]) : students_lab[r][j][1] = stud /\ SawEmpty(r, k, j)

\* C8: nothing keeps two runs from writing the same cell.  Whenever two
\* completed runs both saw a student's grade cell empty, both batches hold a
\* CellWrite for that student in that worksheet, addressed to the same cell
\* (the cell seen, for a single-digit first row), and every cell written by
\* both holds the value of the write applied last.
C8_LastWriteWins ==
  \A a, b \in Runs : (a # b /\ pc[a] = "done" /\ pc[b] = "done"
                      /\ hist[a].wrote < hist[b].wrote) =>
    /\ \A k \in 1..Len(Sheets), stud \in {"S1", "S2"} : BothSawEmpty(a, b, k, stud) =>
         \E ia \in 1..Len(hist[a].origin), ib \in 1..Len(hist[b].origin) :
           /\ hist[a].origin[ia].sheet = Sheets[k] /\ hist[a].origin[ia].stud = stud
           /\ hist[b].origin[ib].sheet = Sheets[k] /\ hist[b].origin[ib].stud = stud
           /\ Target(body[a].data[ia]) = Target(body[b].data[ib])
           /\ StartRow(register.lab_cols[args[a].lab_no]) < 10 =>
                Target(body[a].data[ia]) =
                  <<Sheets[k], ColumnName(register.lab_cols[args[a].lab_no]),
                    StartRow(register.lab_cols[args[a].lab_no]) + Seen(a, k)[stud][2]>>
    /\ \A t \in Targets(b) : cells[t] = LastValue(b, t)
    /\ \A t \in Targets(a) \ Targets(b) : cells[t] = LastValue(a, t)

\* Both runs fetched before either wrote, both saw the cell empty, both wrote
\* it with different values, and the later write's value is in the cell.
C8_Witness ==
  \E a, b \in Runs, k \in 1..Len(Sheets), stud \in {"S1", "S2"} :
    /\ a # b /\ pc[a] = "done" /\ pc[b] = "done"
    /\ hist[a].wrote < hist[b].wrote
    /\ BothSawEmpty(a, b, k, stud)
    /\ hist[a].seen[k].clock = 0 /\ hist[b].seen[k].clock = 0
    /\ \E t \in Targets(a) \cap Targets(b) :
         /\ t = <<Sheets[k], ColumnName(register.lab_cols[args[a].lab_no]),
                  StartRow(register.lab_cols[args[a].lab_no]) + Seen(a, k)[stud][2]>>
         /\ LastValue(a, t) # LastValue(b, t)
         /\ cells[t] = LastValue(b, t)

\* The last position of id in the fetched id column.
LastIndex(ids, id) == CHOOSE i \in 1..Len(ids) : ids[i][1] = id /\ \A n \in (i + 1)..Len(ids) : ids[n][1] # id

\* C4: whatever the lengths of the two fetched columns (a shorter grade
\* column, or none, included), the mapping holds every fetched id; an id's row
\* offset is the position of its last occurrence in the id column, and its
\* grade row is the one fetched at that position, empty when none was fetched
\* there.
C4_PaddingKeepsAlignment ==
  ret.called =>
    /\ ~IsError(ret.val)
    /\ DOMAIN ret.val.reg_range = {arg.ids[i][1] : i \in 1..Len(arg.ids)}
    /\ \A id \in DOMAIN ret.val.reg_range :
         LET i == LastIndex(arg.ids, id)
         IN  /\ ret.val.reg_range[id][2] = i - 1
             /\ ret.val.reg_range[id][1] = (IF i <= Len(arg.grades) THEN arg.grades[i] ELSE <<>>)

C4_Witness ==
  /\ ret.called
  /\ "reg_range" \in DOMAIN ret.val
  /\ Len(arg.grades) < Len(arg.ids)
  /\ Len(arg.grades) > 0
  /\ \E i, n \in 1..Len(arg.ids) :
       /\ i < n
       /\ arg.ids[i] = arg.ids[n]
       /\ i <= Len(arg.grades) /\ arg.grades[i] # <<>>
       /\ n > Len(arg.grades)
       /\ ret.val.reg_range[arg.ids[n][1]] = <<<<>>, n - 1>>

\* C9: for a template '<letter><row>:<letter>' with a first row from 1 to 9
\* and any row offset i, make_value_range returns the range
\* '<sheet>!<letter><row + i>', which the service resolves to that row of
\* that column, and the single given value.
C9_SingleDigitAddress ==
  (ret.called /\ StartRow(arg.col) \in 1..9) =>
    /\ ~IsError(ret.val)
    /\ ret.val.range = <<arg.sheet, "!">> \o ColumnName(arg.col)
                         \o Str(StartRow(arg.col) + arg.idx)
    /\ Target(ret.val) = <<arg.sheet, ColumnName(arg.col), StartRow(arg.col) + arg.idx>>
    /\ ret.val.values = <<<<arg.value>>>>
    /\ ret.val.majorDimension = "ROWS"

\* 'D2:D' with offset 3 gives 'D5'; a sum of 10 or more is reached too.
C9_Witness ==
  /\ ret.called
  /\ \/ /\ arg.col = <<"D", "2", ":", "D">> /\ arg.idx = 3
        /\ ret.val.range = <<arg.sheet, "!", "D", "5">>
     \/ /\ arg.col = <<"D", "9", ":", "D">> /\ arg.idx = 3
        /\ ret.val.range = <<arg.sheet, "!", "D", "1", "2">>

====
